---- MODULE Spec2Model ----
(***************************************************************************)
(* A model of scripts/rag_pipeline.py: the RAGPipeline object (documents,  *)
(* vector_db), its build steps (load_documents, preprocess_documents,      *)
(* chunk_documents, generate_embeddings, build_vector_database) and        *)
(* similarity_search.                                                      *)
(*                                                                         *)
(* Words are modelled by their position in the document (the text of a     *)
(* word plays no part in chunking).  Embedding vectors are the integer     *)
(* vectors of norm 5, i.e. unit vectors scaled by 5, with non-negative     *)
(* components as np.random.rand produces; a dot product is then 25 times   *)
(* the cosine similarity.  An exception raised by a method is recorded in  *)
(* call.outcome under the name of the Python exception class.              *)
(*                                                                         *)
(* The caller follows run_complete_pipeline: one load, then chunking,      *)
(* embedding and building in that order (each step may be repeated until   *)
(* an index is built), and searches at any time, before or after the       *)
(* build.  The guards ~Built, documents = <<>> and "embeddings" \notin     *)
(* bound state this order; they are not conditions of the methods.         *)
(*                                                                         *)
(* The second part models scripts/evaluation_framework.py: the five        *)
(* evaluators, evaluate_single_query, evaluate_test_set with its history   *)
(* and generate_evaluation_report.  Scores are exact fractions; the global *)
(* generator behind np.random is a variable, rng, that every draw reads    *)
(* and advances.  SpecEval runs the framework methods one call at a time,  *)
(* SpecThreads runs evaluate calls of concurrent threads draw by draw,     *)
(* SpecStore runs the build steps with caller-supplied embeddings,         *)
(* SpecRebuild runs a search statement by statement on one thread while    *)
(* another builds the index again, and SpecReport applies                  *)
(* generate_evaluation_report to summaries of any scores.                  *)
(***************************************************************************)
EXTENDS Integers, Sequences, FiniteSets, TLC

VARIABLES
    documents,    \* self.documents
    vector_db,    \* self.vector_db
    chunks,       \* the caller's local: the list chunk_documents returned
    embeddings,   \* the caller's local: the array generate_embeddings returned
    results,      \* the list the last similarity_search returned
    bound,        \* which of chunks, embeddings, results hold a returned value
    build_called, \* whether build_vector_database has ever been called
    call,         \* the last method call: its name, outcome and, for
                  \* chunk_documents and a search that returns, its arguments
    in_flight,    \* the locals of a similarity_search that runs on a thread
                  \* of its own, statement by statement
    rng,          \* the state of the global generator behind np.random
    clock,        \* time.time()
    evaluation_history, \* RAGEvaluationFramework.evaluation_history
    eval_call,    \* the last call of a framework method: its name, argument,
                  \* outcome and returned value
    threads       \* the evaluate calls in progress on concurrent threads

pipeline_vars ==
    <<documents, vector_db, chunks, embeddings, results, bound, build_called, call,
      in_flight>>

framework_vars == <<rng, clock, evaluation_history, eval_call, threads>>

vars == <<pipeline_vars, framework_vars>>

\* ---------------------------------------------------------------- bounds
MaxDocs == 1
MaxWords == 3
MaxChunkSize == 3
MaxIndex == 3
MaxTopK == 3

\* ---------------------------------------------------------------- values
Min(a, b) == IF a <= b THEN a ELSE b

Max(a, b) == IF a >= b THEN a ELSE b

\* The words of a text of n words.
Words(n) == [k \in 1..n |-> k]

NoCall == [op |-> "init", chunk_size |-> 0, overlap |-> 0, query |-> <<>>,
           top_k |-> 0, outcome |-> "ok"]

Called(op, cs, ov, q, k, outcome) ==
    [op |-> op, chunk_size |-> cs, overlap |-> ov, query |-> q,
     top_k |-> k, outcome |-> outcome]

\* ------------------------------------------------------- python helpers
\* s[lo:hi] for lo >= 0.
PySlice(s, lo, hi) ==
    LET stop == IF hi < 0 THEN Max(Len(s) + hi, 0) ELSE Min(hi, Len(s))
    IN  IF lo >= stop THEN <<>> ELSE SubSeq(s, lo + 1, stop)

RECURSIVE RangeUp(_, _, _)
RangeUp(i, stop, step) ==
    IF i < stop THEN <<i>> \o RangeUp(i + step, stop, step) ELSE <<>>

RECURSIVE RangeDown(_, _, _)
RangeDown(i, stop, step) ==
    IF i > stop THEN <<i>> \o RangeDown(i + step, stop, step) ELSE <<>>

\* range(start, stop, step) for step # 0 (range raises ValueError on step 0).
PyRange(start, stop, step) ==
    IF step > 0 THEN RangeUp(start, stop, step) ELSE RangeDown(start, stop, step)

\* {}: a dict with no keys.
EmptyDict == [key \in {} |-> 0]

\* self.vector_db holds an index: the key "embeddings" is present.
Built == "embeddings" \in DOMAIN vector_db

\* ------------------------------------------------------------ __init__
NoEvalCall == [op |-> "init", outcome |-> "ok"]

\* No search is in progress.
IdleSearch == [pc |-> "idle"]

\* RAGEvaluationFramework.__init__: an empty history; the generator is in
\* the state the seed gives it.
InitFramework(seed) ==
    /\ rng = seed
    /\ clock = 0
    /\ evaluation_history = <<>>
    /\ eval_call = NoEvalCall
    /\ threads = <<>>

InitPipeline ==
    /\ documents = <<>>
    /\ vector_db = EmptyDict
    /\ chunks = <<>>
    /\ embeddings = <<>>
    /\ results = <<>>
    /\ bound = {}
    /\ build_called = FALSE
    /\ call = NoCall
    /\ in_flight = IdleSearch

\* The pipeline script: it creates no evaluation framework.
Init == InitPipeline /\ InitFramework(0)

\* ------------------------------------------------------ load_documents
\* A loaded document: its id is its position in the list, its content a
\* text of n words; processed_content is absent until preprocessing.
LoadedDoc(k, n) ==
    [id |-> k, content |-> Words(n), processed |-> FALSE,
     processed_content |-> <<>>, word_count |-> 0]

DocLists == UNION {[1..m -> 0..MaxWords] : m \in 0..MaxDocs}

LoadDocuments ==
    /\ documents = <<>>
    /\ ~Built
    /\ \E ns \in DocLists :
          documents' = [k \in 1..Len(ns) |-> LoadedDoc(k, ns[k])]
    /\ call' = Called("load_documents", 0, 0, <<>>, 0, "ok")
    /\ UNCHANGED <<vector_db, chunks, embeddings, results, bound, build_called>>
    /\ UNCHANGED <<in_flight, framework_vars>>

\* ------------------------------------------------ preprocess_documents
Preprocessed(doc) ==
    [doc EXCEPT !.processed = TRUE,
                !.processed_content = doc.content,
                !.word_count = Len(doc.content)]

PreprocessDocuments ==
    /\ ~Built
    /\ \E k \in 1..Len(documents) : ~documents[k].processed
    /\ documents' = [k \in 1..Len(documents) |-> Preprocessed(documents[k])]
    /\ call' = Called("preprocess_documents", 0, 0, <<>>, 0, "ok")
    /\ UNCHANGED <<vector_db, chunks, embeddings, results, bound, build_called>>
    /\ UNCHANGED <<in_flight, framework_vars>>

\* ----------------------------------------------------- chunk_documents
\* A stride that ignores the overlap.
RangeStep_NoOverlap(chunk_size, overlap) == chunk_size

\* A stride one word too long.
RangeStep_Long(chunk_size, overlap) == chunk_size - overlap + 1

RangeStep(chunk_size, overlap) == chunk_size - overlap

\* An end index that is not clipped to the document.
EndIdx_Unclipped(i, chunk_size, n) == i + chunk_size

EndIdx(i, chunk_size, n) == Min(i + chunk_size, n)

MakeChunk(doc, words, i, chunk_size, chunk_id) ==
    LET chunk_words == PySlice(words, i, i + chunk_size)
    IN  [chunk_id |-> chunk_id,
         parent_doc_id |-> doc.id,
         content |-> chunk_words,
         start_idx |-> i,
         end_idx |-> EndIdx(i, chunk_size, Len(words)),
         word_count |-> Len(chunk_words)]

\* The chunks of one document, numbered from chunk_id on.
DocChunks(doc, chunk_size, overlap, chunk_id) ==
    LET words == doc.processed_content
        starts == PyRange(0, Len(words), RangeStep(chunk_size, overlap))
    IN  [j \in 1..Len(starts) |->
            MakeChunk(doc, words, starts[j], chunk_size, chunk_id + j - 1)]

RECURSIVE ChunkLoop(_, _, _, _)
ChunkLoop(docs, chunk_size, overlap, acc) ==
    IF docs = <<>> THEN acc
    ELSE ChunkLoop(Tail(docs), chunk_size, overlap,
                   acc \o DocChunks(Head(docs), chunk_size, overlap, Len(acc)))

\* The exception the loop raises at its first document, if any.
ChunkOutcome(docs, chunk_size, overlap) ==
    IF docs = <<>> THEN "ok"
    ELSE IF ~docs[1].processed THEN "KeyError"
    ELSE IF RangeStep(chunk_size, overlap) = 0 THEN "ValueError"
    ELSE "ok"

ChunkDocuments ==
    /\ ~Built
    /\ \E chunk_size \in 1..MaxChunkSize, overlap \in 0..MaxChunkSize :
          LET outcome == ChunkOutcome(documents, chunk_size, overlap)
          IN  /\ call' = Called("chunk_documents", chunk_size, overlap, <<>>, 0, outcome)
              /\ chunks' = IF outcome = "ok"
                           THEN ChunkLoop(documents, chunk_size, overlap, <<>>)
                           ELSE <<>>
              /\ bound' = IF outcome = "ok"
                          THEN (bound \ {"embeddings"}) \cup {"chunks"}
                          ELSE bound \ {"chunks", "embeddings"}
    /\ embeddings' = <<>>
    /\ UNCHANGED <<documents, vector_db, results, build_called>>
    /\ UNCHANGED <<in_flight, framework_vars>>

\* ------------------------------------------------- generate_embeddings
\* The vectors np.random.rand draws, and the vectors of norm 5.
RandVectors == {<<1, 0>>, <<0, 2>>, <<6, 8>>}

UnitVectors == {<<5, 0>>, <<0, 5>>, <<3, 4>>}

\* v / np.linalg.norm(v): the vector of norm 5 in the direction of v.
Normalize(v) ==
    CHOOSE u \in UnitVectors :
        u[1] * v[2] = u[2] * v[1] /\ u[1] * v[1] + u[2] * v[2] > 0

\* The rows of an array differ in length: as an ndarray it is then a
\* one-dimensional array of objects.
Ragged(array) ==
    \E j, k \in 1..Len(array) : Len(array[j]) # Len(array[k])

\* ndarray.shape: (0,) for np.array([]), (n,) for n rows of unequal
\* length, (n, dim) otherwise.
Shape(array) ==
    IF Len(array) = 0 \/ Ragged(array)
    THEN <<Len(array)>> ELSE <<Len(array), Len(array[1])>>

GenerateEmbeddings ==
    /\ ~Built
    /\ "chunks" \in bound
    /\ "embeddings" \notin bound
    /\ Len(chunks) <= MaxIndex
    /\ \E raw \in [1..Len(chunks) -> RandVectors] :
          embeddings' = [j \in 1..Len(chunks) |-> Normalize(raw[j])]
    /\ bound' = bound \cup {"embeddings"}
    /\ call' = Called("generate_embeddings", 0, 0, <<>>, 0, "ok")
    /\ UNCHANGED <<documents, vector_db, chunks, results, build_called>>
    /\ UNCHANGED <<in_flight, framework_vars>>

\* An array the caller obtains elsewhere and hands to
\* build_vector_database: one vector per chunk, of dimension 2 or 3.
ExternalVectors == UnitVectors \cup {<<5, 0, 0>>}

SupplyEmbeddings ==
    /\ ~Built
    /\ "chunks" \in bound
    /\ "embeddings" \notin bound
    /\ Len(chunks) <= MaxIndex
    /\ embeddings' \in [1..Len(chunks) -> ExternalVectors]
    /\ bound' = bound \cup {"embeddings"}
    /\ call' = Called("supply_embeddings", 0, 0, <<>>, 0, "ok")
    /\ UNCHANGED <<documents, vector_db, chunks, results, build_called>>
    /\ UNCHANGED <<in_flight, framework_vars>>

\* ----------------------------------------------- build_vector_database
\* embeddings.shape[1] raises IndexError on a one-dimensional array.
BuildOutcome(array) == IF Len(Shape(array)) < 2 THEN "IndexError" ELSE "ok"

NewVectorDb(chunk_list, array) ==
    [chunks |-> chunk_list,
     embeddings |-> array,
     index_metadata |-> [total_chunks |-> Len(chunk_list),
                         embedding_dim |-> Shape(array)[2]]]

BuildVectorDatabase ==
    /\ ~Built
    /\ "chunks" \in bound
    /\ "embeddings" \in bound
    /\ LET outcome == BuildOutcome(embeddings)
       IN  /\ call' = Called("build_vector_database", 0, 0, <<>>, 0, outcome)
           /\ vector_db' = IF outcome = "ok"
                           THEN NewVectorDb(chunks, embeddings)
                           ELSE vector_db
    /\ build_called' = TRUE
    /\ UNCHANGED <<documents, chunks, embeddings, results, bound>>
    /\ UNCHANGED <<in_flight, framework_vars>>

\* --------------------------------------------------- similarity_search
\* np.dot
Dot(u, v) == u[1] * v[1] + u[2] * v[2]

\* One step of the stable descending sort: x goes behind every element
\* whose key is at least its own.
RECURSIVE InsertDesc(_, _)
InsertDesc(x, s) ==
    IF s = <<>> THEN <<x>>
    ELSE IF Head(s)[2] >= x[2] THEN <<Head(s)>> \o InsertDesc(x, Tail(s))
    ELSE <<x>> \o s

\* The same step of a sort that reverses the order of equal keys.
RECURSIVE InsertDesc_TiesReversed(_, _)
InsertDesc_TiesReversed(x, s) ==
    IF s = <<>> THEN <<x>>
    ELSE IF Head(s)[2] > x[2] THEN <<Head(s)>> \o InsertDesc_TiesReversed(x, Tail(s))
    ELSE <<x>> \o s

SortStep(x, s) == InsertDesc(x, s)

\* similarities.sort(key=lambda x: x[1], reverse=True): list.sort is stable,
\* also under reverse=True.
RECURSIVE SortByScore(_, _)
SortByScore(similarities, acc) ==
    IF similarities = <<>> THEN acc
    ELSE SortByScore(Tail(similarities), SortStep(Head(similarities), acc))

Similarities(query_embedding, array) ==
    [j \in 1..Len(array) |-> <<j - 1, Dot(query_embedding, array[j])>>]

\* A slice that stops one short.
TopChunks_OneShort(similarities, top_k) == PySlice(similarities, 0, top_k - 1)

TopChunks(similarities, top_k) == PySlice(similarities, 0, top_k)

\* The rank taken from the position in the index.
RankOf_ChunkIdx(chunk_idx, n_results) == chunk_idx + 1

RankOf(chunk_idx, n_results) == n_results + 1

\* {**chunk, "similarity_score": ..., "rank": ...}
MakeResult(chunk, similarity_score, rank) ==
    [similarity_score |-> similarity_score, rank |-> rank] @@ chunk

ResultList(db, top_chunks) ==
    [j \in 1..Len(top_chunks) |->
        MakeResult(db.chunks[top_chunks[j][1] + 1], top_chunks[j][2],
                   RankOf(top_chunks[j][1], j - 1))]

SearchOutcome(db, top_chunks) ==
    IF \E j \in 1..Len(top_chunks) : top_chunks[j][1] >= Len(db.chunks)
    THEN "IndexError" ELSE "ok"

\* A search that writes score and rank into the stored chunks it returns
\* (chunk.update(...) in place of the copy {**chunk, ...}).
IndexAfterSearch_InPlace(db, top_chunks) ==
    [db EXCEPT !.chunks =
        [p \in 1..Len(db.chunks) |->
            IF \E j \in 1..Len(top_chunks) : top_chunks[j][1] = p - 1
            THEN LET j == CHOOSE j \in 1..Len(top_chunks) : top_chunks[j][1] = p - 1
                 IN  MakeResult(db.chunks[p], top_chunks[j][2], j)
            ELSE db.chunks[p]]]

\* self.vector_db after a search: the method assigns nothing to it, sorts
\* its own list of (index, score) pairs and copies each chunk it returns.
IndexAfterSearch(db, top_chunks) == db

\* The query text is only printed (line 143): the query embedding is drawn
\* at random whatever the text, so the text is no input of the model.
SimilaritySearch ==
    \E raw \in RandVectors, top_k \in 0..MaxTopK :
        LET query_embedding == Normalize(raw)
        IN  IF ~Built
            THEN /\ call' = Called("similarity_search", 0, 0, <<>>, 0, "KeyError")
                 /\ UNCHANGED <<documents, vector_db, chunks, embeddings,
                                results, bound, build_called>>
                 /\ UNCHANGED <<in_flight, framework_vars>>
            ELSE LET similarities ==
                         SortByScore(Similarities(query_embedding,
                                                  vector_db.embeddings), <<>>)
                     top_chunks == TopChunks(similarities, top_k)
                     outcome == SearchOutcome(vector_db, top_chunks)
                 IN  /\ call' = Called("similarity_search", 0, 0,
                                       query_embedding, top_k, outcome)
                     /\ results' = IF outcome = "ok"
                                   THEN ResultList(vector_db, top_chunks)
                                   ELSE results
                     /\ bound' = IF outcome = "ok"
                                 THEN bound \cup {"results"} ELSE bound
                     /\ vector_db' = IndexAfterSearch(vector_db, top_chunks)
                     /\ UNCHANGED <<documents, chunks, embeddings, build_called>>
                     /\ UNCHANGED <<in_flight, framework_vars>>

\* ------------------------------------ a rebuild while a search is running
\* The overlaps the building thread chunks with, and the vectors
\* np.random.rand draws in its generate_embeddings calls.
RebuildOverlaps == {0}

RebuildVectors == {<<1, 0>>, <<6, 8>>}

\* build_vector_database called at any time, also again on a pipeline that
\* holds an index, with a chunk list and an array that chunk_documents and
\* generate_embeddings return for the loaded documents (locals of the
\* building thread).  The dict is constructed first (embeddings.shape[1]
\* can raise) and then assigned to self.vector_db in a single store.
RebuildVectorDatabase ==
    /\ \E chunk_size \in 1..MaxChunkSize, overlap \in RebuildOverlaps :
          /\ ChunkOutcome(documents, chunk_size, overlap) = "ok"
          /\ LET chunk_list == ChunkLoop(documents, chunk_size, overlap, <<>>)
             IN  /\ Len(chunk_list) <= MaxIndex
                 /\ \E raw \in [1..Len(chunk_list) -> RebuildVectors] :
                       LET array == [j \in 1..Len(chunk_list) |-> Normalize(raw[j])]
                           outcome == BuildOutcome(array)
                       IN  /\ call' = Called("build_vector_database", 0, 0, <<>>, 0,
                                             outcome)
                           /\ vector_db' = IF outcome = "ok"
                                           THEN NewVectorDb(chunk_list, array)
                                           ELSE vector_db
    /\ UNCHANGED <<documents, chunks, embeddings, results, bound, build_called,
                   in_flight>>
    /\ UNCHANGED framework_vars

\* The locals of a search between two statements.  index is the dict
\* self.vector_db referred to when enumerate(self.vector_db["embeddings"])
\* was evaluated: the loop iterates over the array of that dict.
Searching(pc, query_embedding, top_k, index, top_chunks, local_results, outcome) ==
    [pc |-> pc, query_embedding |-> query_embedding, top_k |-> top_k,
     index |-> index, top_chunks |-> top_chunks, results |-> local_results,
     outcome |-> outcome]

\* Lines 146-157: the query embedding is drawn, self.vector_db is read
\* once for the array to score, and the scores are sorted and cut in
\* locals of the call.
SearchScore ==
    /\ in_flight.pc \in {"idle", "done"}
    /\ \E raw \in RandVectors, top_k \in 0..MaxTopK :
          LET query_embedding == Normalize(raw)
          IN  IF ~Built
              THEN in_flight' = Searching("done", query_embedding, top_k, vector_db,
                                          <<>>, <<>>, "KeyError")
              ELSE in_flight' =
                       Searching("resolve", query_embedding, top_k, vector_db,
                                 TopChunks(SortByScore(
                                               Similarities(query_embedding,
                                                            vector_db.embeddings),
                                               <<>>),
                                           top_k),
                                 <<>>, "ok")
    /\ UNCHANGED <<documents, vector_db, chunks, embeddings, results, bound,
                   build_called, call>>
    /\ UNCHANGED framework_vars

\* One iteration of the loop of lines 160-167: self.vector_db is read
\* again for the chunk at chunk_idx.
SearchResolve ==
    /\ in_flight.pc = "resolve"
    /\ Len(in_flight.results) < Len(in_flight.top_chunks)
    /\ LET n_results == Len(in_flight.results)
           chunk_idx == in_flight.top_chunks[n_results + 1][1]
           similarity_score == in_flight.top_chunks[n_results + 1][2]
       IN  IF chunk_idx >= Len(vector_db.chunks)
           THEN in_flight' = [in_flight EXCEPT !.pc = "done",
                                               !.outcome = "IndexError"]
           ELSE in_flight' =
                    [in_flight EXCEPT !.results =
                        Append(@, MakeResult(vector_db.chunks[chunk_idx + 1],
                                             similarity_score,
                                             RankOf(chunk_idx, n_results)))]
    /\ UNCHANGED <<documents, vector_db, chunks, embeddings, results, bound,
                   build_called, call>>
    /\ UNCHANGED framework_vars

\* return results
SearchReturn ==
    /\ in_flight.pc = "resolve"
    /\ Len(in_flight.results) = Len(in_flight.top_chunks)
    /\ in_flight' = [in_flight EXCEPT !.pc = "done"]
    /\ UNCHANGED <<documents, vector_db, chunks, embeddings, results, bound,
                   build_called, call>>
    /\ UNCHANGED framework_vars

\* =================================================== evaluation_framework
\* Scores are exact fractions <<numerator, denominator>> in lowest terms;
\* <<0, 0>> is nan.  The rounding of floating point is not modelled.
NaN == <<0, 0>>

\* Body(value) with value computed once, as an assignment to a local
\* variable computes the right-hand side once.
Bind(value, Body(_)) == CHOOSE y \in {Body(x) : x \in {value}} : TRUE

RECURSIVE Gcd(_, _)
Gcd(a, b) ==
    IF b = 0 THEN a ELSE Bind(a % b, LAMBDA remainder : Gcd(b, remainder))

Rat(n, d) == Bind(Gcd(n, d), LAMBDA g : <<n \div g, d \div g>>)

IsNaN(x) == x[2] = 0

\* The numerator of x over the common denominator of x and y.
Over(x, y) == x[1] * (y[2] \div Gcd(x[2], y[2]))

CommonDen(x, y) == x[2] * (y[2] \div Gcd(x[2], y[2]))

RatAdd(x, y) ==
    IF IsNaN(x) \/ IsNaN(y) THEN NaN
    ELSE Rat(Over(x, y) + Over(y, x), CommonDen(x, y))

\* x - y for x >= y.
RatSub(x, y) ==
    IF IsNaN(x) \/ IsNaN(y) THEN NaN
    ELSE Rat(Over(x, y) - Over(y, x), CommonDen(x, y))

RatDivInt(x, k) == IF IsNaN(x) \/ k = 0 THEN NaN ELSE Rat(x[1], x[2] * k)

RatLess(x, y) == Over(x, y) < Over(y, x)

RECURSIVE RatSum(_)
RatSum(scores) ==
    IF scores = <<>> THEN <<0, 1>>
    ELSE Bind(RatSum(Tail(scores)), LAMBDA rest : RatAdd(scores[1], rest))

\* np.mean: nan for an empty list.
Mean(scores) == RatDivInt(RatSum(scores), Len(scores))

\* ------------------------------------------------------------- np.random
\* The global generator: a linear congruential generator of full period
\* stands for the Mersenne Twister.  A draw reads the state and advances it.
RngPeriod == 25
RngLevels == 5

NextRng(r) == (6 * r + 7) % RngPeriod

\* random_sample() in [0, 1), in fifths.
Level(r) == r \div RngLevels

RECURSIVE Advance(_, _)
Advance(r, k) == IF k = 0 THEN r ELSE Advance(NextRng(r), k - 1)

\* np.random.uniform(lo, hi) = lo + (hi - lo) * random_sample(), lo and hi
\* in thousandths.
Uniform(lo, hi, r) ==
    Rat(lo * RngLevels + (hi - lo) * Level(r), 1000 * RngLevels)

\* The generator states that the draws of a method read when it is entered
\* with the generator in state r and nothing else draws meanwhile.
Reads(r, count) == [k \in 1..count |-> Advance(r, k - 1)]

\* The k-th draw (k = 1, 2, ...) of a method whose draws read the
\* generator states reads.
Draw(lo, hi, reads, k) == Uniform(lo, hi, reads[k])

\* ------------------------------------------------------------ evaluators
\* An EvaluationResult.  Of the details only the draws they make are
\* modelled.
Result(metric_name, score, outcome) ==
    [metric_name |-> metric_name, score |-> score, outcome |-> outcome]

\* One uniform(0.6, 0.95) draw per context.
RelevanceScores(context, reads) ==
    [j \in 1..Len(context) |-> Draw(600, 950, reads, j)]

RetrievalAccuracyEvaluator(context, reads) ==
    LET relevance_scores == RelevanceScores(context, reads)
        avg_relevance == Mean(relevance_scores)
    IN  Result("retrieval_accuracy", avg_relevance, "ok")

GenerationQualityEvaluator(context, reads) ==
    LET coherence == Draw(800, 950, reads, 1)
        query_relevance == Draw(750, 920, reads, 2)
        fluency == Draw(850, 980, reads, 3)
        informativeness == Draw(700, 900, reads, 4)
        overall_quality ==
            Mean(<<coherence, query_relevance, fluency, informativeness>>)
    IN  Result("generation_quality", overall_quality, "ok")

\* The fourth draw is details["response_context_overlap"].
FaithfulnessEvaluator(context, reads) ==
    LET hallucination_score == Draw(50, 150, reads, 1)
        faithfulness_score == RatSub(<<1, 1>>, hallucination_score)
        context_coverage == Draw(600, 900, reads, 2)
        factual_consistency == Draw(850, 980, reads, 3)
        overall_faithfulness ==
            Mean(<<faithfulness_score, context_coverage, factual_consistency>>)
    IN  Result("faithfulness", overall_faithfulness, "ok")

\* min(relevance_scores) raises ValueError for an empty context list.
ContextRelevanceEvaluator(context, reads) ==
    LET relevance_scores == RelevanceScores(context, reads)
        avg_relevance == Mean(relevance_scores)
    IN  IF context = <<>>
        THEN Result("context_relevance", NaN, "ValueError")
        ELSE Result("context_relevance", avg_relevance, "ok")

\* The fourth draw is details["keyword_overlap"].
AnswerRelevanceEvaluator(context, reads) ==
    LET direct_relevance == Draw(800, 950, reads, 1)
        completeness == Draw(750, 920, reads, 2)
        specificity == Draw(700, 900, reads, 3)
        overall_relevance == Mean(<<direct_relevance, completeness, specificity>>)
    IN  Result("answer_relevance", overall_relevance, "ok")

\* self.evaluators, in the insertion order of the dict.
MetricNames ==
    <<"retrieval_accuracy", "generation_quality", "faithfulness",
      "context_relevance", "answer_relevance">>

\* The number of draws one evaluate call makes.
DrawCount(metric_name, context) ==
    IF metric_name \in {"retrieval_accuracy", "context_relevance"}
    THEN Len(context) ELSE 4

\* evaluator.evaluate(query, response, context, ground_truth), its draws
\* reading the generator states reads.
EvaluateOn(metric_name, context, reads) ==
    CASE metric_name = "retrieval_accuracy" -> RetrievalAccuracyEvaluator(context, reads)
      [] metric_name = "generation_quality" -> GenerationQualityEvaluator(context, reads)
      [] metric_name = "faithfulness" -> FaithfulnessEvaluator(context, reads)
      [] metric_name = "context_relevance" -> ContextRelevanceEvaluator(context, reads)
      [] metric_name = "answer_relevance" -> AnswerRelevanceEvaluator(context, reads)

\* An evaluate call that runs from generator state r with no other draw
\* in between: its result and the state it leaves the generator in.
Evaluate(metric_name, context, r) ==
    LET count == DrawCount(metric_name, context)
        result == EvaluateOn(metric_name, context, Reads(r, count))
    IN  [metric_name |-> result.metric_name, score |-> result.score,
         outcome |-> result.outcome, rng |-> Advance(r, count)]

\* ------------------------------------------------- evaluate_single_query
\* The loop over self.evaluators from evaluator m on: results holds the
\* EvaluationResults so far, by position in MetricNames.  An exception of
\* an evaluator ends the loop.
RECURSIVE SingleQueryLoop(_, _, _, _)
SingleQueryLoop(m, context, r, results_so_far) ==
    IF m > Len(MetricNames)
    THEN [results |-> results_so_far, outcome |-> "ok", rng |-> r]
    ELSE Bind(Evaluate(MetricNames[m], context, r), LAMBDA result :
             IF result.outcome # "ok"
             THEN [results |-> results_so_far, outcome |-> result.outcome,
                   rng |-> result.rng]
             ELSE Bind(Append(results_so_far,
                              [metric_name |-> result.metric_name,
                               score |-> result.score]),
                       LAMBDA longer :
                           SingleQueryLoop(m + 1, context, result.rng, longer)))

EvaluateSingleQuery(context, r) == SingleQueryLoop(1, context, r, <<>>)


\* ----------------------------------------------------- evaluate_test_set
\* The clock advances by one at every call of evaluate_test_set and by one
\* for every test case of the call; no call ends after MaxClock.
MaxClock == 5

\* A test case: its query and its list of context strings (the response
\* and the ground truth play no part in any score).
TestCaseValues ==
    {[query |-> "q1", context |-> <<"c1", "c2">>],
     [query |-> "q2", context |-> <<"c1">>],
     [query |-> "q3", context |-> <<>>]}

\* The test sets a call can take at time now.
TestSets(now) == UNION {[1..n -> TestCaseValues] : n \in 0..(MaxClock - now - 1)}

MetricSet == {MetricNames[m] : m \in 1..Len(MetricNames)}

\* results[metric_name] of the dict evaluate_single_query returns.
ResultFor(results_of_case, metric_name) ==
    LET m == CHOOSE m \in 1..Len(results_of_case) :
                 results_of_case[m].metric_name = metric_name
    IN  results_of_case[m]

\* A score list with the score of the current test case put first.
CollectScore_Front(scores, score) == <<score>> \o scores

\* metric_scores[metric_name].append(result.score)
CollectScore(scores, score) == Append(scores, score)

\* The loop over enumerate(test_cases) from test case i (0-based) on.
RECURSIVE TestSetLoop(_, _, _, _, _)
TestSetLoop(test_cases, i, r, all_results, metric_scores) ==
    IF i >= Len(test_cases)
    THEN [all_results |-> all_results, metric_scores |-> metric_scores,
          outcome |-> "ok", rng |-> r]
    ELSE LET test_case == test_cases[i + 1]
         IN  Bind(EvaluateSingleQuery(test_case.context, r), LAMBDA single :
                 IF single.outcome # "ok"
                 THEN [all_results |-> all_results, metric_scores |-> metric_scores,
                       outcome |-> single.outcome, rng |-> single.rng]
                 ELSE TestSetLoop(test_cases, i + 1, single.rng,
                         Append(all_results,
                                [test_case_id |-> i, query |-> test_case.query,
                                 results |-> single.results]),
                         [metric_name \in MetricSet |->
                             CollectScore(metric_scores[metric_name],
                                          ResultFor(single.results,
                                                    metric_name).score)]))

\* sorted(scores)
RECURSIVE RatInsert(_, _)
RatInsert(sorted, x) ==
    IF sorted = <<>> THEN <<x>>
    ELSE IF RatLess(x, sorted[1]) THEN <<x>> \o sorted
    ELSE <<sorted[1]>> \o RatInsert(Tail(sorted), x)

RECURSIVE RatSorted(_)
RatSorted(scores) ==
    IF scores = <<>> THEN <<>>
    ELSE Bind(RatSorted(Tail(scores)), LAMBDA rest : RatInsert(rest, scores[1]))

\* np.median: the middle value, or the mean of the two middle values.
Median(scores) ==
    Bind(RatSorted(scores), LAMBDA sorted :
        LET n == Len(sorted)
        IN  IF n = 0 THEN NaN
            ELSE IF n % 2 = 1 THEN sorted[(n + 1) \div 2]
            ELSE Mean(<<sorted[n \div 2], sorted[n \div 2 + 1]>>))

\* The aggregate of one metric; np.std is left out (no rational value).
\* For an empty list np.mean gives nan and np.min raises ValueError.
Aggregate(scores) ==
    Bind(RatSorted(scores), LAMBDA sorted :
        [mean |-> Mean(scores),
         min |-> IF scores = <<>> THEN NaN ELSE sorted[1],
         max |-> IF scores = <<>> THEN NaN ELSE sorted[Len(sorted)],
         median |-> Median(scores)])

AggregateOutcome(metric_scores) ==
    IF \E metric_name \in MetricSet : metric_scores[metric_name] = <<>>
    THEN "ValueError" ELSE "ok"

MetricMeans(aggregate_results) ==
    [m \in 1..Len(MetricNames) |-> aggregate_results[MetricNames[m]].mean]

\* An overall score that takes the median of the per-metric means.
OverallScore_Median(aggregate_results) == Median(MetricMeans(aggregate_results))

\* np.mean of the per-metric means.
OverallScore(aggregate_results) == Mean(MetricMeans(aggregate_results))

\* evaluate_test_set entered with the generator in state r at time now.
TestSetRun(test_cases, r, now) ==
    Bind(TestSetLoop(test_cases, 0, r, <<>>,
                     [metric_name \in MetricSet |-> <<>>]),
         LAMBDA loop :
    LET outcome == IF loop.outcome # "ok" THEN loop.outcome
                   ELSE AggregateOutcome(loop.metric_scores)
        aggregate_results ==
            [metric_name \in MetricSet |-> Aggregate(loop.metric_scores[metric_name])]
    IN  [outcome |-> outcome,
         rng |-> loop.rng,
         metric_scores |-> loop.metric_scores,
         evaluation_summary |->
             IF outcome = "ok"
             THEN [overall_score |-> OverallScore(aggregate_results),
                   metric_aggregates |-> aggregate_results,
                   individual_results |-> loop.all_results,
                   test_set_size |-> Len(test_cases),
                   evaluation_timestamp |-> now]
             ELSE <<>>])

\* A history that keeps only the latest summary.
HistoryAfterRun_Replace(history, evaluation_summary) == <<evaluation_summary>>

\* self.evaluation_history.append(evaluation_summary)
HistoryAfterRun(history, evaluation_summary) == Append(history, evaluation_summary)

EvalCalled(op, argument, outcome, metric_scores, returned) ==
    [op |-> op, argument |-> argument, outcome |-> outcome,
     metric_scores |-> metric_scores, returned |-> returned]

EvaluateTestSet ==
    /\ clock < MaxClock
    /\ \E test_cases \in TestSets(clock) :
          LET now == clock + 1 + Len(test_cases)
          IN  \E run \in {TestSetRun(test_cases, rng, now)} :
              /\ clock' = now
              /\ rng' = run.rng
              /\ evaluation_history' =
                     IF run.outcome = "ok"
                     THEN HistoryAfterRun(evaluation_history, run.evaluation_summary)
                     ELSE evaluation_history
              /\ eval_call' = EvalCalled("evaluate_test_set", test_cases,
                                         run.outcome, run.metric_scores,
                                         run.evaluation_summary)
    /\ UNCHANGED threads
    /\ UNCHANGED pipeline_vars


\* ------------------------------------------- properties of chunk_documents
\* chunk_documents has just returned a chunk list.
ChunkReturned == call.op = "chunk_documents" /\ call.outcome = "ok"

ValidConfiguration == call.chunk_size > call.overlap /\ call.overlap >= 0

ChunksOf(doc) == SelectSeq(chunks, LAMBDA c : c.parent_doc_id = doc.id)

WordRange(c) == c.start_idx .. (c.end_idx - 1)

Covered(cs) == UNION {WordRange(cs[j]) : j \in 1..Len(cs)}

\* C1 (as amended): for chunk_size > overlap >= 0 the word ranges of the
\* chunks of a document of n words cover [0, n) with no gaps, and every
\* chunk whose window fits in the document (start_idx + chunk_size <= n)
\* has word_count exactly chunk_size.
C1_CoverageFullWindows ==
    (ChunkReturned /\ ValidConfiguration) =>
        \A d \in 1..Len(documents) :
            LET cs == ChunksOf(documents[d])
                n == documents[d].word_count
            IN  /\ Covered(cs) = 0..(n - 1)
                /\ \A j \in 1..Len(cs) :
                      cs[j].start_idx + call.chunk_size <= n
                          => cs[j].word_count = call.chunk_size

\* C1 as stated: ... and every chunk except possibly the last one has
\* word_count exactly chunk_size.
C1_AllButLastFull ==
    (ChunkReturned /\ ValidConfiguration) =>
        \A d \in 1..Len(documents) :
            LET cs == ChunksOf(documents[d])
                n == documents[d].word_count
            IN  /\ Covered(cs) = 0..(n - 1)
                /\ \A j \in 1..(Len(cs) - 1) : cs[j].word_count = call.chunk_size

\* A document chunked with overlap into full windows followed by a clipped
\* window that is not the last one.
C1_Witness ==
    /\ ChunkReturned /\ ValidConfiguration
    /\ \E d \in 1..Len(documents) :
          LET cs == ChunksOf(documents[d])
          IN  /\ Len(cs) >= 3
              /\ cs[1].word_count = call.chunk_size
              /\ \E j \in 2..(Len(cs) - 1) : cs[j].word_count < call.chunk_size

\* C2 (as amended): for chunk_size > overlap >= 0 a document of n words,
\* n < chunk_size, yields no chunk when n = 0; when n >= 1 its first chunk
\* spans the whole document (start_idx = 0, end_idx = n) and it is the only
\* chunk exactly when n <= chunk_size - overlap.
C2_ShortDocument ==
    (ChunkReturned /\ ValidConfiguration) =>
        \A d \in 1..Len(documents) :
            LET cs == ChunksOf(documents[d])
                n == documents[d].word_count
            IN  n < call.chunk_size =>
                    /\ (n = 0) => (Len(cs) = 0)
                    /\ (n >= 1) =>
                          /\ Len(cs) >= 1
                          /\ cs[1].start_idx = 0
                          /\ cs[1].end_idx = n
                          /\ (Len(cs) = 1) <=> (n <= call.chunk_size - call.overlap)

\* C2 as stated: a document with fewer words than chunk_size yields exactly
\* one chunk, spanning the whole document.
C2_ExactlyOneChunk ==
    (ChunkReturned /\ ValidConfiguration) =>
        \A d \in 1..Len(documents) :
            LET cs == ChunksOf(documents[d])
                n == documents[d].word_count
            IN  n < call.chunk_size =>
                    /\ Len(cs) = 1
                    /\ cs[1].start_idx = 0
                    /\ cs[1].end_idx = n

\* A non-empty document shorter than chunk_size, chunked with overlap into
\* exactly one chunk.
C2_Witness ==
    /\ ChunkReturned /\ ValidConfiguration
    /\ call.overlap > 0
    /\ \E d \in 1..Len(documents) :
          /\ documents[d].word_count \in 1..(call.chunk_size - 1)
          /\ Len(ChunksOf(documents[d])) = 1

\* C3: for every chunk_size <= overlap, chunk_documents ends in an
\* InvalidConfiguration error and never returns normally.
C3_InvalidConfiguration ==
    (call.op = "chunk_documents" /\ call.chunk_size <= call.overlap)
        => call.outcome = "InvalidConfiguration"

\* C4: every chunk satisfies end_idx - start_idx = word_count and
\* start_idx >= 0, hence word_count >= 1 and end_idx <= the word count of
\* its parent document, for every chunk_size > overlap >= 0.
C4_ChunkIndices ==
    (ChunkReturned /\ ValidConfiguration) =>
        \A j \in 1..Len(chunks) :
            LET c == chunks[j]
            IN  /\ c.end_idx - c.start_idx = c.word_count
                /\ c.start_idx >= 0
                /\ c.word_count >= 1
                /\ \E d \in 1..Len(documents) :
                      /\ documents[d].id = c.parent_doc_id
                      /\ c.end_idx <= documents[d].word_count

\* A chunk whose window is clipped at the end of its document.
C4_Witness ==
    /\ ChunkReturned /\ ValidConfiguration
    /\ \E j \in 1..Len(chunks) :
          /\ chunks[j].start_idx > 0
          /\ chunks[j].word_count < call.chunk_size

\* C5 (as amended): for consecutive chunks i, i+1 of one document,
\* start_idx of chunk i+1 is never beyond end_idx of chunk i; it is strictly
\* less when overlap > 0 or when the window of chunk i exceeds the
\* document, and equal to it when overlap = 0 and the window fits.
C5_ConsecutiveWindows ==
    (ChunkReturned /\ ValidConfiguration) =>
        \A d \in 1..Len(documents) :
            LET cs == ChunksOf(documents[d])
                n == documents[d].word_count
            IN  \A j \in 1..(Len(cs) - 1) :
                    LET exceeds == cs[j].start_idx + call.chunk_size > n
                    IN  /\ cs[j + 1].start_idx <= cs[j].end_idx
                        /\ (call.overlap > 0 \/ exceeds)
                              => cs[j + 1].start_idx < cs[j].end_idx
                        /\ (call.overlap = 0 /\ ~exceeds)
                              => cs[j + 1].start_idx = cs[j].end_idx

\* C5 as stated: start_idx of chunk i+1 is strictly less than end_idx of
\* chunk i unless the window of chunk i would exceed the document length.
C5_StrictOverlap ==
    (ChunkReturned /\ ValidConfiguration) =>
        \A d \in 1..Len(documents) :
            LET cs == ChunksOf(documents[d])
                n == documents[d].word_count
            IN  \A j \in 1..(Len(cs) - 1) :
                    \/ cs[j + 1].start_idx < cs[j].end_idx
                    \/ cs[j].start_idx + call.chunk_size > n

\* Consecutive chunks with overlap > 0, the first in a window that fits.
C5_Witness ==
    /\ ChunkReturned /\ ValidConfiguration
    /\ call.overlap > 0
    /\ \E d \in 1..Len(documents) :
          LET cs == ChunksOf(documents[d])
          IN  /\ Len(cs) >= 2
              /\ cs[1].start_idx + call.chunk_size <= documents[d].word_count
              /\ cs[2].start_idx < cs[1].end_idx


\* ----------------------------------------- properties of similarity_search
\* similarity_search has just returned a result list.
SearchReturned == call.op = "similarity_search" /\ call.outcome = "ok"

\* The insertion position of a result's chunk in the index (chunk ids are
\* unique within a chunk list).
PositionOf(r) ==
    CHOOSE p \in 0..(Len(vector_db.chunks) - 1) :
        vector_db.chunks[p + 1].chunk_id = r.chunk_id

ScoreAt(p) == Dot(call.query, vector_db.embeddings[p + 1])

\* (score, position) a ranks before (score, position) b.
RanksBefore(sa, pa, sb, pb) == sa > sb \/ (sa = sb /\ pa < pb)

ReturnedPositions == {PositionOf(results[i]) : i \in 1..Len(results)}

\* C6: similarity_search returns its results by descending similarity
\* score, and of two stored vectors with equal score the one with the
\* lower insertion position is ranked first, for every index content,
\* query vector and top_k > 0 (the score of a result being the dot product
\* of the query with the stored vector, and no stored vector left out
\* ranking before a returned one).
C6_DescendingTieByPosition ==
    (SearchReturned /\ call.top_k > 0) =>
        /\ \A i \in 1..Len(results) :
              results[i].similarity_score = ScoreAt(PositionOf(results[i]))
        /\ \A i, j \in 1..Len(results) :
              i < j => RanksBefore(results[i].similarity_score, PositionOf(results[i]),
                                   results[j].similarity_score, PositionOf(results[j]))
        /\ \A p \in (0..(Len(vector_db.embeddings) - 1)) \ ReturnedPositions :
              \A i \in 1..Len(results) :
                  RanksBefore(results[i].similarity_score, PositionOf(results[i]),
                              ScoreAt(p), p)

\* Positions 0 and 2 tie above position 1 and are returned in that order.
C6_Witness ==
    /\ SearchReturned
    /\ Len(results) = 3
    /\ PositionOf(results[1]) = 0
    /\ PositionOf(results[2]) = 2
    /\ PositionOf(results[3]) = 1
    /\ results[1].similarity_score = results[2].similarity_score
    /\ results[2].similarity_score > results[3].similarity_score

\* C7: on a built index of size n, for top_k > 0, similarity_search does
\* not fail and returns min(top_k, n) results; for top_k >= n these are the
\* n stored chunks, none missing or repeated.
C7_ResultCount ==
    (call.op = "similarity_search" /\ Built) =>
        LET n == Len(vector_db.embeddings)
        IN  /\ call.outcome = "ok"
            /\ (call.top_k > 0) =>
                  /\ Len(results) = Min(call.top_k, n)
                  /\ Cardinality(ReturnedPositions) = Len(results)
                  /\ \A i \in 1..Len(results) :
                        results[i].chunk_id
                            = vector_db.chunks[PositionOf(results[i]) + 1].chunk_id
                  /\ (call.top_k >= n) => (ReturnedPositions = 0..(n - 1))

\* A search with top_k above the size of an index of two vectors.
C7_Witness ==
    /\ SearchReturned
    /\ Len(vector_db.embeddings) = 2
    /\ call.top_k = 3
    /\ Len(results) = 2

\* C8: in every result list similarity_search returns, the ranks are
\* 1..len(results) in list order and the similarity scores of adjacent
\* results never increase.
C8_DenseRanks ==
    SearchReturned =>
        /\ \A i \in 1..Len(results) : results[i].rank = i
        /\ \A i \in 1..(Len(results) - 1) :
              results[i].similarity_score >= results[i + 1].similarity_score

\* A result list that is not in index order, with a strict drop in score.
C8_Witness ==
    /\ SearchReturned
    /\ Len(results) >= 2
    /\ PositionOf(results[1]) > PositionOf(results[2])
    /\ results[1].similarity_score > results[2].similarity_score

\* C9: similarity_search on a pipeline on which build_vector_database has
\* never been called fails with IndexNotBuilt, whatever the query and top_k.
C9_IndexNotBuilt ==
    (call.op = "similarity_search" /\ ~build_called)
        => call.outcome = "IndexNotBuilt"

\* C10: the build steps on an empty document set complete without error
\* and produce a valid index with zero entries, and every later
\* similarity_search on it returns an empty list.
C10_EmptyIndex ==
    /\ (call.op = "build_vector_database" /\ documents = <<>>) =>
          /\ call.outcome = "ok"
          /\ Built
          /\ vector_db.index_metadata.total_chunks = 0
    /\ (call.op = "similarity_search" /\ build_called /\ documents = <<>>) =>
          /\ call.outcome = "ok"
          /\ results = <<>>


\* C11: similarity_search is read-only with respect to index state: no
\* search changes vector_db (chunks, embeddings, index_metadata) or
\* documents, so after any sequence of searches they are what they were
\* right after the build.
C11_SearchReadOnly ==
    [][(call'.op = "similarity_search")
          => (vector_db' = vector_db /\ documents' = documents)]_vars

\* A search on a built index that returned stored chunks.
C11_Witness ==
    /\ SearchReturned
    /\ Built
    /\ Len(results) >= 1
    /\ vector_db = NewVectorDb(chunks, embeddings)

\* C13: two similarity_search calls with identical inputs (same index
\* state, same query, same top_k) return identical ordered results.  The
\* query text is no input of the model, so any two calls may carry the same
\* text; the formula compares consecutive calls.
C13_Deterministic ==
    [][(SearchReturned /\ SearchReturned' /\ vector_db' = vector_db
            /\ call'.top_k = call.top_k)
          => (results' = results)]_vars


\* C12: once the first vector has established the dimension, adding a
\* vector of a different length always fails with DimensionMismatch and
\* adding a vector of the same length never fails, so every index holds
\* only vectors of one dimension, equal to index_metadata.embedding_dim.
C12_DimensionInvariant ==
    /\ (call.op = "build_vector_database" /\ Ragged(embeddings))
          => call.outcome = "DimensionMismatch"
    /\ (call.op = "build_vector_database" /\ Len(embeddings) >= 1
            /\ ~Ragged(embeddings))
          => call.outcome = "ok"
    /\ Built =>
          \A j \in 1..Len(vector_db.embeddings) :
              Len(vector_db.embeddings[j]) = vector_db.index_metadata.embedding_dim


\* C19: with s = chunk_size - overlap, the start_idx values of a document
\* of n words are exactly 0, s, 2s, ... for all multiples of s strictly
\* below n, in order, and the final shorter chunk is neither padded nor
\* dropped: it ends at n and holds the n - start_idx words that remain.
C19_StartsAtMultiples ==
    (ChunkReturned /\ ValidConfiguration) =>
        \A d \in 1..Len(documents) :
            LET cs == ChunksOf(documents[d])
                n == documents[d].word_count
                stride == call.chunk_size - call.overlap
                multiples == {m \in 0..(n - 1) : m % stride = 0}
            IN  /\ Len(cs) = Cardinality(multiples)
                /\ \A j \in 1..Len(cs) : cs[j].start_idx = (j - 1) * stride
                /\ \A j \in 1..Len(cs) : cs[j].start_idx \in multiples
                /\ Len(cs) >= 1 =>
                      /\ cs[Len(cs)].end_idx = n
                      /\ cs[Len(cs)].word_count = n - cs[Len(cs)].start_idx
                      /\ Len(cs[Len(cs)].content) = cs[Len(cs)].word_count

\* A document chunked with overlap into at least three chunks, the last one
\* shorter than chunk_size.
C19_Witness ==
    /\ ChunkReturned /\ ValidConfiguration /\ call.overlap > 0
    /\ \E d \in 1..Len(documents) :
          LET cs == ChunksOf(documents[d])
          IN  /\ Len(cs) >= 3
              /\ cs[2].start_idx = call.chunk_size - call.overlap
              /\ cs[Len(cs)].word_count < call.chunk_size
              /\ cs[Len(cs)].word_count >= 1


\* ------------------------------------------- generate_evaluation_report
\* <<quotient, remainder>> of num * 10^digits by den, digit by digit.
RECURSIVE LongDiv(_, _, _)
LongDiv(num, den, digits) ==
    IF digits = 0 THEN <<num \div den, num % den>>
    ELSE Bind(LongDiv(num, den, digits - 1), LAMBDA shorter :
             <<shorter[1] * 10 + (shorter[2] * 10) \div den,
               (shorter[2] * 10) % den>>)

\* A fraction formatted as a percentage with the given number of decimals
\* (format specs .2% and .1%): the percentage in units of 10^-decimals,
\* rounded to the nearest unit.
FormatPercent(x, decimals) ==
    LET scaled == LongDiv(x[1], x[2], decimals + 2)
    IN  scaled[1] + (IF 2 * scaled[2] >= x[2] THEN 1 ELSE 0)

\* x sorts strictly before y.
Before(x, y, reverse) == IF reverse THEN RatLess(y, x) ELSE RatLess(x, y)

\* sorted(..., key=mean, reverse=...): a stable sort, so items of equal
\* mean keep the order of the dict.
RECURSIVE InsertMetric(_, _, _)
InsertMetric(sorted, item, reverse) ==
    IF sorted = <<>> THEN <<item>>
    ELSE IF Before(item.mean, sorted[1].mean, reverse) THEN <<item>> \o sorted
    ELSE <<sorted[1]>> \o InsertMetric(Tail(sorted), item, reverse)

RECURSIVE SortedMetrics(_, _, _)
SortedMetrics(items, reverse, sorted) ==
    IF items = <<>> THEN sorted
    ELSE Bind(InsertMetric(sorted, items[1], reverse), LAMBDA longer :
             SortedMetrics(Tail(items), reverse, longer))

\* evaluation_results['metric_aggregates'].items(), in dict order.
MetricItems(evaluation_results) ==
    [m \in 1..Len(MetricNames) |->
        [metric_name |-> MetricNames[m],
         mean |-> evaluation_results.metric_aggregates[MetricNames[m]].mean]]

TopMetrics(evaluation_results) ==
    PySlice(SortedMetrics(MetricItems(evaluation_results), TRUE, <<>>), 0, 2)

BottomMetrics(evaluation_results) ==
    PySlice(SortedMetrics(MetricItems(evaluation_results), FALSE, <<>>), 0, 2)

ReportLine(item) ==
    [metric_name |-> item.metric_name, mean |-> FormatPercent(item.mean, 1)]

\* The report text, by its variable parts.
Report(evaluation_results) ==
    [overall_score |-> FormatPercent(evaluation_results.overall_score, 2),
     test_set_size |-> evaluation_results.test_set_size,
     evaluation_date |-> evaluation_results.evaluation_timestamp,
     breakdown |->
         [m \in 1..Len(MetricNames) |->
             LET stats == evaluation_results.metric_aggregates[MetricNames[m]]
             IN  [metric_name |-> MetricNames[m],
                  mean |-> FormatPercent(stats.mean, 2),
                  min |-> FormatPercent(stats.min, 2),
                  max |-> FormatPercent(stats.max, 2),
                  median |-> FormatPercent(stats.median, 2)]],
     strengths |->
         LET top_metrics == TopMetrics(evaluation_results)
         IN  [j \in 1..Len(top_metrics) |-> ReportLine(top_metrics[j])],
     improvements |->
         LET bottom_metrics == BottomMetrics(evaluation_results)
         IN  [j \in 1..Len(bottom_metrics) |-> ReportLine(bottom_metrics[j])]]

\* A report that files the summary it was given in the history.
HistoryAfterReport_Filed(history, evaluation_results) ==
    Append(history, evaluation_results)

\* self.evaluation_history after a report: the method reads its argument
\* and assigns to nothing but its local string.
HistoryAfterReport(history, evaluation_results) == history

\* The caller passes a summary that evaluate_test_set returned.
GenerateEvaluationReport ==
    /\ \E k \in 1..Len(evaluation_history) :
          LET evaluation_results == evaluation_history[k]
          IN  /\ eval_call' = EvalCalled("generate_evaluation_report",
                                         evaluation_results, "ok", EmptyDict,
                                         Report(evaluation_results))
              /\ evaluation_history' =
                     HistoryAfterReport(evaluation_history, evaluation_results)
    /\ UNCHANGED <<rng, clock, threads>>
    /\ UNCHANGED pipeline_vars


\* --------------------------------------------- reports of any summary
\* Scores are the multiples of 1 / MaxScore in [0, 1].
MaxScore == 2

ScoreValues == {Rat(k, MaxScore) : k \in 0..MaxScore}

\* The summary evaluate_test_set builds for one test case on which the
\* metrics score as given (lines 246-266).
SummaryOf(scores, now) ==
    LET aggregate_results ==
            [metric_name \in MetricSet |-> Aggregate(<<scores[metric_name]>>)]
    IN  [overall_score |-> OverallScore(aggregate_results),
         metric_aggregates |-> aggregate_results,
         individual_results |->
             <<[test_case_id |-> 0, query |-> "q1",
                results |-> [m \in 1..Len(MetricNames) |->
                                [metric_name |-> MetricNames[m],
                                 score |-> scores[MetricNames[m]]]]]>>,
         test_set_size |-> 1,
         evaluation_timestamp |-> now]

\* generate_evaluation_report entered with a summary as its argument.
ReportEntered(evaluation_results) ==
    EvalCalled("generate_evaluation_report", evaluation_results, "entered",
               EmptyDict, <<>>)

\* The method runs on the summary it was given, whatever the history
\* holds, and returns the report.
ReportSummary ==
    /\ eval_call.op = "generate_evaluation_report"
    /\ eval_call.outcome = "entered"
    /\ eval_call' = EvalCalled("generate_evaluation_report", eval_call.argument,
                               "ok", EmptyDict, Report(eval_call.argument))
    /\ evaluation_history' =
           HistoryAfterReport(evaluation_history, eval_call.argument)
    /\ UNCHANGED <<rng, clock, threads>>
    /\ UNCHANGED pipeline_vars


\* --------------------------------------------- concurrent evaluate calls
\* Threads that each call evaluator.evaluate for one test case.  A draw is
\* one step: the generator is global to the process, and a thread can be
\* scheduled between any two draws of another.
ThreadIds == {1, 2}

Contexts == {test_case.context : test_case \in TestCaseValues}

IdleThread ==
    [state |-> "idle", metric_name |-> "", context |-> <<>>, entry |-> 0,
     reads |-> <<>>, score |-> NaN, outcome |-> ""]

\* Thread t enters evaluate; entry is the generator state it finds.
StartEvaluate(t) ==
    /\ threads[t].state = "idle"
    /\ \E metric_name \in MetricSet, context \in Contexts :
          threads' = [threads EXCEPT ![t] =
                         [state |-> "running", metric_name |-> metric_name,
                          context |-> context, entry |-> rng,
                          reads |-> <<>>, score |-> NaN, outcome |-> ""]]
    /\ UNCHANGED <<rng, clock, evaluation_history, eval_call>>
    /\ UNCHANGED pipeline_vars

\* Thread t makes its next np.random.uniform call.
DrawStep(t) ==
    /\ threads[t].state = "running"
    /\ Len(threads[t].reads)
           < DrawCount(threads[t].metric_name, threads[t].context)
    /\ threads' = [threads EXCEPT ![t].reads = Append(@, rng)]
    /\ rng' = NextRng(rng)
    /\ UNCHANGED <<clock, evaluation_history, eval_call>>
    /\ UNCHANGED pipeline_vars

\* Thread t has made all its draws and returns its EvaluationResult.
ReturnStep(t) ==
    /\ threads[t].state = "running"
    /\ Len(threads[t].reads)
           = DrawCount(threads[t].metric_name, threads[t].context)
    /\ LET result == EvaluateOn(threads[t].metric_name, threads[t].context,
                                threads[t].reads)
       IN  threads' = [threads EXCEPT ![t].state = "done",
                                      ![t].score = result.score,
                                      ![t].outcome = result.outcome]
    /\ UNCHANGED <<rng, clock, evaluation_history, eval_call>>
    /\ UNCHANGED pipeline_vars

\* ----------------------------------------- properties of evaluate_test_set
\* evaluate_test_set has just returned a summary.
EvalReturned == eval_call.op = "evaluate_test_set" /\ eval_call.outcome = "ok"

\* The scores of one metric read off the individual results of a summary.
ScoresIn(evaluation_summary, metric_name) ==
    [j \in 1..Len(evaluation_summary.individual_results) |->
        ResultFor(evaluation_summary.individual_results[j].results,
                  metric_name).score]

\* C14: for a non-empty test set, overall_score is the unweighted mean of
\* the per-metric means: five times the overall score is the sum over the
\* five metrics of (sum of the metric's scores) / (number of test cases).
C14_OverallIsMeanOfMeans ==
    (EvalReturned /\ Len(eval_call.argument) >= 1) =>
        LET evaluation_summary == eval_call.returned
            n == Len(eval_call.argument)
            means == [m \in 1..Len(MetricNames) |->
                         RatDivInt(RatSum(ScoresIn(evaluation_summary,
                                                   MetricNames[m])), n)]
            overall_score == evaluation_summary.overall_score
        IN  /\ ~IsNaN(overall_score)
            /\ \A m \in 1..Len(MetricNames) :
                  evaluation_summary.metric_aggregates[MetricNames[m]].mean = means[m]
            /\ Rat(overall_score[1] * Len(MetricNames), overall_score[2])
                   = RatSum(means)

\* A summary of two test cases whose per-metric means are not all equal and
\* whose overall score is none of them.
C14_Witness ==
    /\ EvalReturned /\ Len(eval_call.argument) = 2
    /\ \A metric_name \in MetricSet :
          eval_call.returned.metric_aggregates[metric_name].mean
              # eval_call.returned.overall_score

\* C15: evaluate_test_set with zero test cases does not raise; it returns
\* an empty summary (test_set_size 0, no individual results) whose
\* overall_score is undefined.
C15_EmptyTestSet ==
    (eval_call.op = "evaluate_test_set" /\ eval_call.argument = <<>>) =>
        /\ eval_call.outcome = "ok"
        /\ eval_call.returned.test_set_size = 0
        /\ eval_call.returned.individual_results = <<>>
        /\ IsNaN(eval_call.returned.overall_score)

\* A call of evaluate_test_set returns in this step.
RunCompletes ==
    /\ clock' > clock
    /\ eval_call'.op = "evaluate_test_set"
    /\ eval_call'.outcome = "ok"

\* C16: evaluation_history is append-only: a completed run appends exactly
\* one entry, its own summary, at the end; every other step leaves the
\* history as it is; no entry is removed, reordered or rewritten, so the
\* length of the history is the number of completed runs.
C16_AppendOnly ==
    [][/\ RunCompletes =>
             evaluation_history' = Append(evaluation_history, eval_call'.returned)
       /\ ~RunCompletes => evaluation_history' = evaluation_history
       /\ \A j \in 1..Len(evaluation_history) :
             /\ j <= Len(evaluation_history')
             /\ evaluation_history'[j] = evaluation_history[j]]_vars

\* A second completed run, its summary after the first run's summary.
C16_Witness ==
    /\ EvalReturned
    /\ Len(evaluation_history) = 2
    /\ evaluation_history[2] = eval_call.returned
    /\ evaluation_history[1] # evaluation_history[2]
    /\ evaluation_history[1].evaluation_timestamp
           < evaluation_history[2].evaluation_timestamp

\* C20: in a run over n test cases each evaluator runs exactly once per
\* test case: every individual result holds one result per metric, each
\* metric's score list has n entries, the j-th being the score of test
\* case j; individual_results has n entries with test_case_id 0..n-1 in
\* order, and test_set_size is n.
C20_OnePerTestCase ==
    EvalReturned =>
        LET evaluation_summary == eval_call.returned
            all_results == evaluation_summary.individual_results
            n == Len(eval_call.argument)
        IN  /\ evaluation_summary.test_set_size = n
            /\ Len(all_results) = n
            /\ \A j \in 1..n :
                  /\ all_results[j].test_case_id = j - 1
                  /\ all_results[j].query = eval_call.argument[j].query
                  /\ Len(all_results[j].results) = Len(MetricNames)
                  /\ \A m \in 1..Len(MetricNames) :
                        all_results[j].results[m].metric_name = MetricNames[m]
            /\ \A metric_name \in MetricSet :
                  /\ Len(eval_call.metric_scores[metric_name]) = n
                  /\ \A j \in 1..n :
                        eval_call.metric_scores[metric_name][j]
                            = ResultFor(all_results[j].results, metric_name).score

\* A run over two different test cases that score differently on every
\* metric.
C20_Witness ==
    /\ EvalReturned /\ Len(eval_call.argument) = 2
    /\ eval_call.argument[1].query # eval_call.argument[2].query
    /\ \A metric_name \in MetricSet :
          eval_call.metric_scores[metric_name][1]
              # eval_call.metric_scores[metric_name][2]


\* generate_evaluation_report has just returned a report.
ReportReturned == eval_call.op = "generate_evaluation_report"

Names(report_lines) == {report_lines[j].metric_name : j \in 1..Len(report_lines)}

\* C18: generate_evaluation_report is a pure transform: a report step
\* changes neither the summary it is given nor the framework state
\* (history, generator), a report of the same summary as the previous
\* report is the same report, and its strengths and areas for improvement
\* are two metrics of greatest and two of least mean of that summary.
C18_ReportIsPure ==
    [][(eval_call'.op = "generate_evaluation_report") =>
          LET evaluation_results == eval_call'.argument
              report == eval_call'.returned
              mean(metric_name) ==
                  evaluation_results.metric_aggregates[metric_name].mean
          IN  /\ evaluation_history' = evaluation_history
              /\ rng' = rng
              /\ \E k \in 1..Len(evaluation_history') :
                    evaluation_history'[k] = evaluation_results
              /\ (ReportReturned /\ eval_call.argument = evaluation_results)
                    => eval_call.returned = report
              /\ Cardinality(Names(report.strengths)) = 2
              /\ Cardinality(Names(report.improvements)) = 2
              /\ \A s \in Names(report.strengths) :
                    \A other \in MetricSet \ Names(report.strengths) :
                        ~RatLess(mean(s), mean(other))
              /\ \A s \in Names(report.improvements) :
                    \A other \in MetricSet \ Names(report.improvements) :
                        ~RatLess(mean(other), mean(s))]_vars

\* A report of the first of two summaries in the history.
C18_Witness ==
    /\ ReportReturned
    /\ Len(evaluation_history) = 2
    /\ eval_call.argument = evaluation_history[1]
    /\ eval_call.argument # evaluation_history[2]
    /\ Names(eval_call.returned.strengths)
           \cap Names(eval_call.returned.improvements) = {}


\* C17: evaluators share no mutable state and can be called concurrently:
\* the result an evaluate call returns is not affected by the interleaving
\* with other evaluate calls, i.e. it is the result the same call returns
\* when no other call draws between its entry and its return.
C17_InterleavingIndependent ==
    \A t \in ThreadIds :
        threads[t].state = "done" =>
            threads[t].score
                = Evaluate(threads[t].metric_name, threads[t].context,
                           threads[t].entry).score


\* C22: for every summary of the five registered metrics, whatever the
\* per-metric means, equal means included, the report lists no metric both
\* among its two strengths and among its two areas for improvement.
C22_StrengthsApartFromImprovements ==
    (ReportReturned /\ eval_call.outcome = "ok") =>
        Names(eval_call.returned.strengths)
            \cap Names(eval_call.returned.improvements) = {}


\* C21: a rebuild swaps in a complete new index atomically: under any
\* interleaving of build_vector_database with a similarity_search, every
\* search that ends on a built index returns, and each chunk it returns is
\* the chunk stored at the returned position in the index whose embedding
\* produced its score; no position is out of range.
C21_SingleIndex ==
    (in_flight.pc = "done" /\ in_flight.outcome # "KeyError") =>
        /\ in_flight.outcome = "ok"
        /\ \A j \in 1..Len(in_flight.results) :
              LET chunk_idx == in_flight.top_chunks[j][1]
              IN  /\ chunk_idx < Len(in_flight.index.chunks)
                  /\ in_flight.results[j]
                        = MakeResult(in_flight.index.chunks[chunk_idx + 1],
                                     Dot(in_flight.query_embedding,
                                         in_flight.index.embeddings[chunk_idx + 1]),
                                     j)


Next ==
    \/ LoadDocuments
    \/ PreprocessDocuments
    \/ ChunkDocuments
    \/ GenerateEmbeddings
    \/ BuildVectorDatabase
    \/ SimilaritySearch

Spec == Init /\ [][Next]_vars

\* The build steps with the embeddings supplied by the caller.
NextStore ==
    \/ LoadDocuments
    \/ PreprocessDocuments
    \/ ChunkDocuments
    \/ SupplyEmbeddings
    \/ BuildVectorDatabase

SpecStore == Init /\ [][NextStore]_vars

\* One thread builds and rebuilds the index while another searches.
NextRebuild ==
    \/ LoadDocuments
    \/ PreprocessDocuments
    \/ RebuildVectorDatabase
    \/ SearchScore
    \/ SearchResolve
    \/ SearchReturn

SpecRebuild == Init /\ [][NextRebuild]_vars

\* The evaluation framework; the generator starts in an arbitrary state.
Seeds == {0, 11}

InitEval == InitPipeline /\ \E seed \in Seeds : InitFramework(seed)

NextEval ==
    \/ EvaluateTestSet
    \/ GenerateEvaluationReport

SpecEval == InitEval /\ [][NextEval]_vars

\* generate_evaluation_report as a function of its argument: a call with
\* a summary of any scores.
InitReport ==
    /\ InitPipeline
    /\ rng \in Seeds
    /\ clock = 0
    /\ evaluation_history = <<>>
    /\ threads = <<>>
    /\ \E scores \in [MetricSet -> ScoreValues] :
          eval_call = ReportEntered(SummaryOf(scores, 0))

NextReport == ReportSummary

SpecReport == InitReport /\ [][NextReport]_vars

\* Evaluators called from concurrent threads.
InitThreads ==
    /\ InitPipeline
    /\ rng \in Seeds
    /\ clock = 0
    /\ evaluation_history = <<>>
    /\ eval_call = NoEvalCall
    /\ threads = [t \in ThreadIds |-> IdleThread]

NextThreads ==
    \/ \E t \in ThreadIds : StartEvaluate(t)
    \/ \E t \in ThreadIds : DrawStep(t)
    \/ \E t \in ThreadIds : ReturnStep(t)

SpecThreads == InitThreads /\ [][NextThreads]_vars

====
